---- MODULE Spec2Model ----
(***************************************************************************)
(* KQL: the select grammar (src/src/index.ts) and the semantic compiler    *)
(* parseSelect with its area cache (src/unnamed/part_001).                 *)
(*                                                                         *)
(* JavaScript values are tagged records, so that values of different       *)
(* types can be compared.  A template string or a joined array is the      *)
(* sequence of the values it is made of, in order.                         *)
(***************************************************************************)
EXTENDS Integers, Sequences, FiniteSets, TLC

\* ------------------------------------------------------------------------
\* Bounds
\* ------------------------------------------------------------------------
\* number of parseSelect calls made one after the other in a behaviour
MaxRuns == 2
\* the area resolver answers with ids 1..MaxId
MaxId == 1

\* ------------------------------------------------------------------------
\* JavaScript values
\* ------------------------------------------------------------------------
Null == [t |-> "null"]
Undefined == [t |-> "undefined"]
Pending == [t |-> "pending"]
Num(n) == [t |-> "number", n |-> n]
Str(s) == [t |-> "string", s |-> s]
Arr(a) == [t |-> "array", a |-> a]
Obj(o) == [t |-> "object", o |-> o]
Fn(name, args) == [t |-> "fn", fnName |-> name, arguments |-> args]
\* an inherited property of a plain object, e.g. ({}).constructor
ProtoFunction == [t |-> "function"]
\* data[1]?.[0] of a scan reply: the array [id, geometry]
Row(id, geometry) == [t |-> "row", id |-> id, geometry |-> geometry]
\* what getAdminLevel stores in memorizeAreas
Entry(name, id, geometry) ==
  [t |-> "entry", name |-> name, id |-> id, geometry |-> geometry]

\* !v is false
Truthy(v) ==
  CASE v.t \in {"null", "undefined"} -> FALSE
    [] v.t = "number" -> v.n # 0
    [] v.t = "string" -> v.s # ""
    [] v.t = "boolean" -> v.b
    [] OTHER -> TRUE

TypeOf(v) ==
  CASE v.t \in {"null", "array", "object", "fn", "row", "entry"} -> "object"
    [] OTHER -> v.t

\* a ?? b
Coalesce(a, b) == IF a.t \in {"null", "undefined"} THEN b ELSE a

\* arr[k] = v with a 0-based k; the slots in between are holes
SetIndex(arr, k, v) ==
  [j \in 1..(IF Len(arr) > k THEN Len(arr) ELSE k + 1) |->
     IF j = k + 1 THEN v ELSE IF j <= Len(arr) THEN arr[j] ELSE Undefined]

\* arr[k] with a 0-based k
GetIndex(arr, k) == IF k >= 0 /\ k < Len(arr) THEN arr[k + 1] ELSE Undefined

\* x[0] and x[1]: an array has them, an object such as a cache entry has not
Index0(x) == IF x.t = "row" THEN x.id ELSE Undefined
Index1(x) == IF x.t = "row" THEN x.geometry ELSE Undefined

\* names every plain object inherits from Object.prototype
ObjectPrototypeNames == {"constructor", "toString", "valueOf"}

\* String.prototype.toLowerCase / toUpperCase followed by trim, on the
\* vocabulary of the statements below
ToLowerCaseTrim(s) ==
  CASE s = "ONLINE" -> "online"
    [] s = "Busy" -> "busy"
    [] s = "ASSIGNING" -> "assigning"
    [] s = "IN_PROCESS" -> "in_process"
    [] OTHER -> s

ToUpperCaseTrim(s) ==
  CASE s = "sgn-bike" -> "SGN-BIKE"
    [] s = "sgn-pool" -> "SGN-POOL"
    [] OTHER -> s

statusToNumber(v) ==
  LET s == ToLowerCaseTrim(v.s) IN
  CASE s = "online" -> Num(1)
    [] s = "busy" -> Num(2)
    [] s = "offline" -> Num(3)
    [] OTHER -> Undefined

orderStatusToNumber(v) ==
  LET s == ToLowerCaseTrim(v.s) IN
  CASE s = "idle" -> Num(1)
    [] s = "assigning" -> Num(2)
    [] s = "accepted" -> Num(3)
    [] s = "in_process" -> Num(4)
    [] s = "completed" -> Num(5)
    [] s = "failed" -> Num(6)
    [] OTHER -> Undefined

\* "a".charCodeAt(0) on the characters of the join data
CharCode(c) ==
  CASE c = "0" -> 48 [] c = "1" -> 49 [] c = "2" -> 50 [] c = "A" -> 65
    [] OTHER -> 63

\* str.split("").map(charCodeAt).join(""): the codes, in order
str2Number(chars) == [j \in 1..Len(chars) |-> Num(CharCode(chars[j]))]

MapSeq(F(_), xs) == [j \in 1..Len(xs) |-> F(xs[j])]

\* ------------------------------------------------------------------------
\* State
\* ------------------------------------------------------------------------
VARIABLES
  memorizeAreas,  \* the process-wide area cache: level -> name -> entry
  runs,           \* parseSelect calls started so far
  ast,            \* the argument of the running parseSelect call
  pc,             \* where the call stands: an await it waits at, or its end
  i,              \* index of the next condition of ast.where (1-based)
  services,       \* the service registry the call fetched
  tile38Query,    \* the spatial command under construction
  metabaseQuery,  \* the record-service parameter map under construction
  admin,          \* the local admin object of the running getAdminLevel
  error,          \* what the call threw, when pc = "threw"
  calls,          \* the remote calls the call issued, each with its reply
  lookups,        \* history: the area lookups that were answered with a row
  dispatched,     \* history: the branches each condition so far has entered
  text,           \* the statement text given to the parser
  parsed          \* the parser's result for text

vars == <<memorizeAreas, runs, ast, pc, i, services, tile38Query,
          metabaseQuery, admin, error, calls, lookups, dispatched,
          text, parsed>>

compilerVars == <<memorizeAreas, runs, ast, pc, i, services, tile38Query,
                  metabaseQuery, admin, error, calls, lookups, dispatched>>

parserVars == <<text, parsed>>

EmptyMap == [x \in {} |-> Undefined]

Put(f, k, v) == [x \in DOMAIN f \cup {k} |-> IF x = k THEN v ELSE f[x]]

Remove(f, k) == [x \in DOMAIN f \ {k} |-> f[x]]

\* obj[k]
Prop(f, k) == IF k \in DOMAIN f THEN f[k] ELSE Undefined

\* the state of the compiler as one record, for the synchronous stretches
\* of code that run from one await to the next
Cur ==
  [memorizeAreas |-> memorizeAreas, pc |-> pc, i |-> i,
   tile38Query |-> tile38Query, metabaseQuery |-> metabaseQuery,
   admin |-> admin, error |-> error, calls |-> calls, lookups |-> lookups,
   dispatched |-> dispatched]

Commit(s) ==
  /\ memorizeAreas' = s.memorizeAreas
  /\ pc' = s.pc
  /\ i' = s.i
  /\ tile38Query' = s.tile38Query
  /\ metabaseQuery' = s.metabaseQuery
  /\ admin' = s.admin
  /\ error' = s.error
  /\ calls' = s.calls
  /\ lookups' = s.lookups
  /\ dispatched' = s.dispatched

\* a remote call is issued and the code awaits it at pc = at
Issue(s, at, call) ==
  [s EXCEPT !.pc = at, !.calls = Append(@, call @@ [reply |-> Pending])]

\* the awaited call returns reply
Answer(s, reply) == [s EXCEPT !.calls[Len(s.calls)].reply = reply]

\* Throw with the exception caught and dropped
ThrowSwallowed(s, e) == [s EXCEPT !.pc = "returned"]

\* an exception leaves parseSelect
Throw(s, e) == [s EXCEPT !.pc = "threw", !.error = e]

\* ------------------------------------------------------------------------
\* The area cache and getAdminLevel
\* ------------------------------------------------------------------------
MemorizeAreasInit == [admin2 |-> EmptyMap, admin3 |-> EmptyMap, admin4 |-> EmptyMap]

\* memorizeAreas.get(level, name): this[level][name], own or inherited
MemorizeAreasGet(mem, level, name) ==
  IF name \in DOMAIN mem[level] THEN mem[level][name]
  ELSE IF name \in ObjectPrototypeNames THEN ProtoFunction
  ELSE Undefined

getAdminLevelQuery(level, name, name3, name4) ==
  CASE level = "admin2" -> [scan |-> "admin-2", name |-> name]
    [] level = "admin3" ->
         [scan |-> "admin-3", name |-> name, parent_id_level_2 |-> name3]
    [] level = "admin4" ->
         [scan |-> "admin-4", name |-> name, parent_id_level_2 |-> name3,
          parent_id_level_3 |-> name4]

AdminInit == [name |-> Str(""), level |-> Str(""), ids |-> <<>>, geometry |-> Str("")]

\* admin.getAdminId(level)
getAdminId(a, level) == GetIndex(a.ids, level - 2)

\* areas[k] with a 0-based k
Area(areas, k) == GetIndex(areas, k)

\* the if (admin2) block
StoreAdmin2(s, areas, admin2) ==
  [s EXCEPT
     !.admin = [name |-> Area(areas, 0), level |-> Str("admin-2"),
                ids |-> SetIndex(s.admin.ids, 0, Index0(admin2)),
                geometry |-> Index1(admin2)],
     !.memorizeAreas.admin2 =
        Put(@, Area(areas, 0).s,
            Entry(Area(areas, 0), Index0(admin2), Index1(admin2)))]

\* the if (admin3) block
StoreAdmin3(s, areas, admin3) ==
  [s EXCEPT
     !.admin = [name |-> Area(areas, 1), level |-> Str("admin-3"),
                ids |-> SetIndex(s.admin.ids, 1, Index0(admin3)),
                geometry |-> Index1(admin3)],
     !.memorizeAreas.admin3 =
        Put(@, Area(areas, 1).s,
            Entry(Area(areas, 1), Index0(admin3), Index1(admin3)))]

\* the if (admin4) block
StoreAdmin4(s, areas, admin4) ==
  [s EXCEPT
     !.admin = [name |-> Area(areas, 2), level |-> Str("admin-4"),
                ids |-> SetIndex(s.admin.ids, 2, Index0(admin4)),
                geometry |-> Index1(admin4)],
     !.memorizeAreas.admin4 =
        Put(@, Area(areas, 2).s,
            Entry(Area(areas, 1), Index0(admin4), Index1(admin4)))]

\* back in parseSelect: case "get" pushes the id and the loop goes on
EndGet(s, areas) ==
  [s EXCEPT
     !.tile38Query.location = Append(@, getAdminId(s.admin, Len(areas) + 1)),
     !.i = @ + 1,
     !.pc = "loop"]

\* if (areas[2]) { ... } up to its await
Level4(s, areas) ==
  IF Truthy(Area(areas, 2))
  THEN LET admin4 == MemorizeAreasGet(s.memorizeAreas, "admin3", Area(areas, 2).s) IN
       IF ~Truthy(admin4)
       THEN Issue(s, "admin4",
                  [kind |-> "area", stage |-> 4, name |-> Area(areas, 2),
                   query |-> getAdminLevelQuery("admin2", Area(areas, 0),
                               getAdminId(s.admin, 2), getAdminId(s.admin, 3))])
       ELSE EndGet(StoreAdmin4(s, areas, admin4), areas)
  ELSE EndGet(s, areas)

\* if (areas[1]) { ... } up to its await
Level3(s, areas) ==
  IF Truthy(Area(areas, 1))
  THEN LET admin3 == MemorizeAreasGet(s.memorizeAreas, "admin3", Area(areas, 1).s) IN
       IF ~Truthy(admin3)
       THEN Issue(s, "admin3",
                  [kind |-> "area", stage |-> 3, name |-> Area(areas, 1),
                   query |-> getAdminLevelQuery("admin2", Area(areas, 0),
                               getAdminId(s.admin, 2), Undefined)])
       ELSE Level4(StoreAdmin3(s, areas, admin3), areas)
  ELSE Level4(s, areas)

\* getAdminLevel(areas) from its first line up to its first await
Level2(s, areas) ==
  LET s0 == [s EXCEPT !.admin = AdminInit] IN
  IF Truthy(Area(areas, 0))
  THEN LET admin2 == MemorizeAreasGet(s0.memorizeAreas, "admin2", Area(areas, 0).s) IN
       IF ~Truthy(admin2)
       THEN Issue(s0, "admin2",
                  [kind |-> "area", stage |-> 2, name |-> Area(areas, 0),
                   query |-> getAdminLevelQuery("admin2", Area(areas, 0),
                               Undefined, Undefined)])
       ELSE Level3(StoreAdmin2(s0, areas, admin2), areas)
  ELSE Level3(s0, areas)

\* the level-2 await returns admin2
AfterAdmin2(s, areas, admin2) ==
  IF Truthy(admin2) THEN Level3(StoreAdmin2(s, areas, admin2), areas)
  ELSE Level3(s, areas)

\* the level-3 await returns; its value is not assigned, admin3 stays as the
\* cache miss left it
AfterAdmin3(s, areas, reply) == Level4(s, areas)

\* the level-4 await returns; its value is not assigned either
AfterAdmin4(s, areas, reply) == EndGet(s, areas)

\* ------------------------------------------------------------------------
\* parseSelect: one condition of the where loop
\* ------------------------------------------------------------------------
tile38FnKeys == {"within", "nearby", "scan", "intersects", "search"}

\* a template string: the literal words and the interpolated values in order
Template(parts) == [t |-> "template", parts |-> parts]

\* alias === "t" || alias === "tile38" || tile38FnKeys.includes(key)
IsTile38Condition(alias, key) ==
  alias = Str("t") \/ alias = Str("tile38") \/ key.s \in tile38FnKeys

\* ["m", "metabase", "u", "url"].includes(alias)
IsMetabaseCondition(alias) ==
  alias \in {Str("m"), Str("metabase"), Str("u"), Str("url")}

\* history: the condition being processed entered the branch of a backend
Enter(s, side) == [s EXCEPT !.dispatched[Len(s.dispatched)][side] = TRUE]

\* continue
Continue(s) == [s EXCEPT !.i = @ + 1]

PushCondition(s, clause) ==
  [s EXCEPT !.tile38Query.conditions = Append(@, clause)]

\* RangeClauses with the lower bound of >= and the upper bound of <= left
\* at the value itself
RangeClausesNoDecrement(key, operator, value) ==
  CASE operator = "=" -> <<Template(<<Str("where"), key, value, value>>)>>
    [] operator = ">" -> <<Template(<<Str("where"), key, value, Str("+inf")>>)>>
    [] operator = ">=" -> <<Template(<<Str("where"), key, value, Str("+inf")>>)>>
    [] operator = "<" -> <<Template(<<Str("where"), key, Str("-inf"), value>>)>>
    [] operator = "<=" -> <<Template(<<Str("where"), key, Str("-inf"), value>>)>>
    [] OTHER -> <<>>

\* the switch (condition.operator) of a numeric value: the clauses it pushes
RangeClauses(key, operator, value) ==
  CASE operator = "=" -> <<Template(<<Str("where"), key, value, value>>)>>
    [] operator = ">" -> <<Template(<<Str("where"), key, value, Str("+inf")>>)>>
    [] operator = ">=" ->
         <<Template(<<Str("where"), key, Num(value.n - 1), Str("+inf")>>)>>
    [] operator = "<" -> <<Template(<<Str("where"), key, Str("-inf"), value>>)>>
    [] operator = "<=" ->
         <<Template(<<Str("where"), key, Str("-inf"), Num(value.n - 1)>>)>>
    [] OTHER -> <<>>

AllStrings(a) == \A j \in 1..Len(a) : a[j].t = "string"

\* if (["m", "metabase", "u", "url"].includes(alias)) { ... }, end of the body
MetabaseBranch(s, alias, key, value) ==
  IF IsMetabaseCondition(alias)
  THEN LET m == Enter(s, "metabase") IN
       IF key.s = "id"
       THEN Continue([m EXCEPT !.metabaseQuery = Put(@, "cardid", value)])
       ELSE Continue([m EXCEPT !.metabaseQuery = Put(@, key.s, value)])
  ELSE Continue(s)

\* if (tile38FnKeys.includes(key)) { ... continue }
FnKeyBranch(s, key, value) ==
  LET h == [s EXCEPT !.tile38Query.head = SetIndex(@, 0, key)] IN
  IF TypeOf(value) = "object"
  THEN IF value.t = "null" THEN Throw(h, "TypeError")
       ELSE IF value.t = "fn"
       THEN LET l == [h EXCEPT !.tile38Query.location =
                                 SetIndex(@, 0, value.fnName)] IN
            IF value.fnName = Str("get") THEN Level2(l, value.arguments)
            ELSE IF value.fnName \in {Str("point"), Str("bounds")}
            THEN Continue([l EXCEPT !.tile38Query.location =
                                      @ \o value.arguments])
            ELSE Continue(l)
       ELSE Continue(h)
  ELSE Continue(h)

\* the body of if (alias === "t" || ...) below the function keys
Tile38Branch(s, alias, key, operator, value, svc) ==
  IF key.s = "id"
  THEN Continue([s EXCEPT !.tile38Query.head = SetIndex(@, 1, value)])
  ELSE IF key.s = "status"
  THEN IF value.t = "array" /\ AllStrings(value.a)
       THEN LET status == MapSeq(statusToNumber, value.a) IN
            Continue(PushCondition(s,
              Template(<<Str("wherein"), Str("status"), Num(Len(status))>>
                       \o status)))
       ELSE Throw(s, "TypeError")
  ELSE
    LET f == IF key.s = "filter"
             THEN [s EXCEPT !.tile38Query.filter = value] ELSE s
    IN
    IF key.s = "service"
    THEN IF value.t = "array" /\ AllStrings(value.a)
         THEN LET serviceIds ==
                    [j \in 1..Len(value.a) |->
                       Prop(svc, ToUpperCaseTrim(value.a[j].s))] IN
              Continue(PushCondition(f,
                Template(<<Str("wherein"), Str("service"), Num(Len(value.a))>>
                         \o serviceIds)))
         ELSE Throw(f, "TypeError")
    ELSE IF value.t = "array" /\ key.s = "order_status"
    THEN IF AllStrings(value.a)
         THEN LET orderStatus == MapSeq(orderStatusToNumber, value.a) IN
              Continue(PushCondition(f,
                Template(<<Str("wherein"), Str("order_status"),
                           Num(Len(orderStatus))>> \o orderStatus)))
         ELSE Throw(f, "TypeError")
    ELSE IF value.t = "array"
    THEN Continue(PushCondition(f,
           Template(<<Str("wherein"), key, Num(Len(value.a))>> \o value.a)))
    ELSE
      LET n == IF TypeOf(value) = "number"
               THEN [f EXCEPT !.tile38Query.conditions =
                                @ \o RangeClauses(key, operator, value)]
               ELSE f
      IN MetabaseBranch(n, alias, key, value)

\* one iteration of for (const condition of ast.where), up to its await if
\* it has one
Condition(s0, condition, dbName, svc) ==
  LET key == condition.left.key
      alias == Coalesce(condition.left.alias, dbName)
      value == condition.right
      s == [s0 EXCEPT !.dispatched =
                        Append(@, [tile38 |-> FALSE, metabase |-> FALSE])]
  IN
  IF IsTile38Condition(alias, key)
  THEN IF key.s \in tile38FnKeys
       THEN FnKeyBranch(Enter(s, "tile38"), key, value)
       ELSE Tile38Branch(Enter(s, "tile38"), alias, key,
                         condition.operator, value, svc)
  ELSE MetabaseBranch(s, alias, key, value)

\* ------------------------------------------------------------------------
\* parseSelect: after the loop
\* ------------------------------------------------------------------------
Return(s) == [s EXCEPT !.pc = "returned"]

IsTile38Database(dbName) == dbName = Str("t") \/ dbName = Str("tile38")

IsMetabaseDatabase(dbName) == dbName = Str("m") \/ dbName = Str("metabase")

\* MetabaseDispatch without its test of dbName
MetabaseDispatchAlways(s, a) ==
  Issue(s, "metabase", [kind |-> "metabase", params |-> s.metabaseQuery])

\* if (dbName === "m" || dbName === "metabase") { ... } and the end
MetabaseDispatch(s, a) ==
  IF IsMetabaseDatabase(a.database.name)
  THEN Issue(s, "metabase", [kind |-> "metabase", params |-> s.metabaseQuery])
  ELSE Return(s)

\* if (dbName === "t" || dbName === "tile38") { ... } up to its await
Tile38Dispatch(s, a) ==
  IF IsTile38Database(a.database.name)
  THEN Issue(s, "tile38",
             [kind |-> "tile38",
              query |-> s.tile38Query.head \o s.tile38Query.conditions
                        \o <<Str("limit"), Coalesce(a.limit, Num(100))>>
                        \o s.tile38Query.location,
              filter |-> s.tile38Query.filter])
  ELSE MetabaseDispatch(s, a)

\* CastTo without the two checks of the companion fields
CastToUnchecked(s, a) ==
  IF "cast_to" \in DOMAIN s.metabaseQuery
  THEN LET idField == Prop(s.metabaseQuery, "id_field")
           geometry == Prop(s.metabaseQuery, "geometry")
           d == [s EXCEPT !.metabaseQuery =
                   Remove(Remove(Remove(@, "cast_to"), "id_field"), "geometry")]
       IN Issue(d, "add",
                [kind |-> "add", url |-> d.metabaseQuery,
                 id_field |-> idField, geometry |-> geometry])
  ELSE Tile38Dispatch(s, a)

\* if ("cast_to" in metabaseQuery) { ... } up to its await
CastTo(s, a) ==
  IF "cast_to" \in DOMAIN s.metabaseQuery
  THEN LET idField == Prop(s.metabaseQuery, "id_field")
           geometry == Prop(s.metabaseQuery, "geometry")
           d == [s EXCEPT !.metabaseQuery =
                   Remove(Remove(Remove(@, "cast_to"), "id_field"), "geometry")]
       IN
       IF ~Truthy(idField) THEN Throw(d, "missing id_field field")
       ELSE IF ~Truthy(geometry) THEN Throw(d, "missing geometry field")
       ELSE Issue(d, "add",
                  [kind |-> "add", url |-> d.metabaseQuery,
                   id_field |-> idField, geometry |-> geometry])
  ELSE Tile38Dispatch(s, a)

\* the await of the registration call returns data
AfterAdd(s, a, data) ==
  Tile38Dispatch([s EXCEPT !.tile38Query.head = SetIndex(@, 1, data.key)], a)

\* if (ast.join) { ... } up to its await
Join(s, a) ==
  IF Truthy(a.join)
  THEN Issue(s, "join", [kind |-> "join", params |-> s.metabaseQuery])
  ELSE CastTo(s, a)

\* Object.values(ast.join).find(o => o.alias === x || o.alias === y)
FindItem(join, x, y) ==
  IF join.left.alias \in {Str(x), Str(y)} THEN join.left
  ELSE IF join.right.alias \in {Str(x), Str(y)} THEN join.right
  ELSE Undefined

\* the await of the join-data fetch returns mData
AfterJoin(s, a, mData) ==
  LET tItem == FindItem(a.join, "t", "tile38")
      mItem == FindItem(a.join, "m", "metabase")
  IN
  IF \/ tItem = Undefined
     \/ Len(mData) > 0 /\ mItem = Undefined
     \/ \E j \in 1..Len(mData) : mItem.key.s \notin DOMAIN mData[j]
  THEN Throw(s, "TypeError")
  ELSE LET ids == [j \in 1..Len(mData) |->
                     Template(str2Number(mData[j][mItem.key.s]))] IN
       CastTo(PushCondition(s,
                Template(<<Str("wherein"), tItem.key, Num(Len(ids))>> \o ids)),
              a)

\* ------------------------------------------------------------------------
\* Inputs: the select ASTs given to parseSelect and the replies of the
\* remote services
\* ------------------------------------------------------------------------
Cond(alias, key, operator, right) ==
  [left |-> [alias |-> alias, key |-> Str(key)], operator |-> operator,
   right |-> right]

Statement(name, alias, join, where, limit) ==
  [command |-> "select", database |-> [name |-> Str(name), alias |-> alias],
   join |-> join, where |-> where, limit |-> limit]

DatabaseNames == {"tile38", "t", "metabase", "m", "url", "u"}

Operators == {"=", ">", ">=", "<", "<=", "in", "is"}

Aliases == {Null, Str("hello")}

\* the argument lists of get(...): one, two and three levels, and a name
\* that every plain object inherits
AreaLists ==
  {<<Str("hanoi")>>,
   <<Str("hanoi"), Str("badinh")>>,
   <<Str("hanoi"), Str("badinh"), Str("phucxa")>>,
   <<Str("hanoi"), Str("constructor")>>,
   <<Str("hanoi"), Str("badinh"), Str("constructor")>>}

GetCondition(areas) == Cond(Null, "within", "in", Fn(Str("get"), areas))

\* select * from D [as hello] and the same with an empty where
BareStatements ==
  {Statement(d, al, Null, w, Null) :
     d \in DatabaseNames, al \in Aliases, w \in {Null, Arr(<<>>)}}

\* one condition, over the aliases and the kinds of key
DispatchStatements ==
  {Statement(d, al, Null, Arr(<<Cond(cal, k, "=", Num(18))>>), Null) :
     d \in DatabaseNames, al \in Aliases,
     cal \in {Null, Str("t"), Str("m"), Str("u"), Str("hello")},
     k \in {"nearby", "age", "id"}}

\* a numeric condition on the spatial engine, over the operators
RangeStatements ==
  {Statement(d, Null, Null, Arr(<<Cond(cal, "age", op, Num(v))>>), Null) :
     d \in {"t", "m"}, cal \in {Str("t"), Str("tile38")}, op \in Operators,
     v \in {0, 18}}

\* one get(...) condition, or get('hanoi') followed by another
AreaStatements ==
  {Statement(d, Null, Null, Arr(<<GetCondition(as)>>), lim) :
     d \in {"t", "m"}, as \in AreaLists, lim \in {Null, Num(10)}}
  \cup
  {Statement("t", Null, Null,
             Arr(<<GetCondition(<<Str("hanoi")>>), GetCondition(as)>>), Null) :
     as \in AreaLists}

\* the other keys of the spatial engine
Tile38Conditions ==
  {Cond(Str("t"), "status", "=", Arr(<<Str("ONLINE"), Str("Busy")>>)),
   Cond(Str("t"), "status", "=", Str("online")),
   Cond(Str("t"), "order_status", "in",
        Arr(<<Str("ASSIGNING"), Str("IN_PROCESS")>>)),
   Cond(Str("t"), "service", "in", Arr(<<Str("sgn-bike"), Str("SGN-POOL")>>)),
   Cond(Str("t"), "service", "in", Arr(<<Str("SGN-BIKE")>>)),
   Cond(Str("t"), "service", "=", Str("SGN-BIKE")),
   Cond(Str("t"), "filter", "=", Obj("order_id")),
   Cond(Str("t"), "filter", "=", Arr(<<Str("20MAMP72")>>)),
   Cond(Str("t"), "filter", "=", Num(7)),
   Cond(Str("t"), "filter", "=", Str("20MAMP72")),
   Cond(Str("t"), "tags", "in", Arr(<<Str("a"), Num(2)>>)),
   Cond(Str("t"), "name", "=", Str("fleet")),
   Cond(Str("t"), "within", "in",
        Fn(Str("point"), <<Str("current_points"), Num(1000)>>)),
   Cond(Str("m"), "scan", "in", Fn(Str("circle"), <<Num(1)>>)),
   Cond(Null, "search", "=", Null)}

Tile38Statements ==
  {Statement("t", Null, Null, Arr(<<Cond(Str("t"), "id", "=", Str("fleet")), c>>),
             Num(10)) : c \in Tile38Conditions}

CastToCondition == Cond(Str("m"), "cast_to", "=", Str("t"))
IdFieldCondition == Cond(Str("m"), "id_field", "=", Str("order_id"))
GeometryCondition == Cond(Str("m"), "geometry", "=", Obj("Point"))

\* join t on t.id = m.order_id, and a join that names neither backend
Joins ==
  {Null,
   [t |-> "object", left |-> [alias |-> Str("t"), key |-> Str("id")],
    right |-> [alias |-> Str("m"), key |-> Str("order_id")]]}

BrokenJoin ==
  [t |-> "object", left |-> [alias |-> Null, key |-> Str("id")],
   right |-> [alias |-> Str("m"), key |-> Str("order_id")]]

\* cast_to with and without its companions, with and without a join
CastToStatements ==
  {Statement(d, Null, j, Arr(w), Null) :
     d \in {"t", "m", "u"}, j \in Joins,
     w \in {<<CastToCondition>>,
            <<CastToCondition, IdFieldCondition>>,
            <<CastToCondition, GeometryCondition>>,
            <<CastToCondition, IdFieldCondition, GeometryCondition>>,
            <<IdFieldCondition, GeometryCondition>>,
            <<Cond(Str("m"), "id", "=", Num(21041))>>}}

\* every stage of the pipeline in one statement
PipelineStatements ==
  {Statement("t", Null, j,
             Arr(<<Cond(Str("t"), "id", "=", Str("fleet")),
                   GetCondition(<<Str("hanoi"), Str("badinh")>>),
                   CastToCondition, IdFieldCondition, GeometryCondition>>),
             Num(10)) : j \in Joins \cup {BrokenJoin}}

Statements ==
  BareStatements \cup DispatchStatements \cup RangeStatements
  \cup AreaStatements \cup Tile38Statements \cup CastToStatements
  \cup PipelineStatements

\* JSON.parse(res.data.data[0]).properties of the service registry
Registries == {[x \in {"SGN-BIKE"} |-> Num(11)]}

\* data[1]?.[0] of an area lookup: a row, or undefined when nothing matched
AreaReplies ==
  {Row(Num(n), Str("polygon")) : n \in 1..MaxId} \cup {Undefined}

\* res.data of the join-data fetch
JoinReplies == {<<>>, <<[order_id |-> <<"1", "2">>], [order_id |-> <<"A">>]>>}

\* res.data.data of the registration call
AddReplies == {[key |-> Str("added")]}

\* a rejected promise
Failed == [t |-> "failed"]

\* ------------------------------------------------------------------------
\* The compiler as a state machine: one action per stretch of parseSelect
\* between two awaits
\* ------------------------------------------------------------------------
Tile38QueryInit == [head |-> <<>>, conditions |-> <<>>, location |-> <<>>,
                    filter |-> Obj("empty")]

Init ==
  /\ memorizeAreas = MemorizeAreasInit
  /\ runs = 0
  /\ ast = Statement("t", Null, Null, Null, Null)
  /\ pc = "idle"
  /\ i = 1
  /\ services = EmptyMap
  /\ tile38Query = Tile38QueryInit
  /\ metabaseQuery = EmptyMap
  /\ admin = AdminInit
  /\ error = ""
  /\ calls = <<>>
  /\ lookups = {}
  /\ dispatched = <<>>
  /\ text = <<>>
  /\ parsed = Undefined

\* the arguments of the get(...) whose getAdminLevel is running
Areas == ast.where.a[i].right.arguments

\* history: an area lookup answered with a row
Looked(s, reply) ==
  IF reply.t = "row"
  THEN [s EXCEPT !.lookups =
          @ \cup {[level |-> s.calls[Len(s.calls)].stage,
                   name |-> s.calls[Len(s.calls)].name, id |-> reply.id]}]
  ELSE s

\* parseSelect(a) is called: it returns at once without a where, and
\* otherwise fetches the service registry
Start ==
  /\ pc \in {"idle", "returned", "threw"}
  /\ runs < MaxRuns
  /\ \E a \in Statements :
       /\ ast' = a
       /\ runs' = runs + 1
       /\ services' = EmptyMap
       /\ LET fresh == [Cur EXCEPT !.i = 1, !.tile38Query = Tile38QueryInit,
                                   !.metabaseQuery = EmptyMap,
                                   !.admin = AdminInit, !.error = "",
                                   !.calls = <<>>, !.dispatched = <<>>]
          IN IF ~Truthy(a.where) THEN Commit(Return(fresh))
             ELSE Commit(Issue(fresh, "services", [kind |-> "services"]))
  /\ UNCHANGED parserVars

ServicesReturn ==
  /\ pc = "services"
  /\ \/ \E registry \in Registries :
          /\ services' = registry
          /\ Commit([Answer(Cur, Obj("registry")) EXCEPT !.pc = "loop"])
     \/ /\ services' = services
        /\ Commit(Throw(Answer(Cur, Failed), "BackendError"))
  /\ UNCHANGED <<runs, ast, parserVars>>

LoopStep ==
  /\ pc = "loop"
  /\ i <= Len(ast.where.a)
  /\ Commit(Condition(Cur, ast.where.a[i], ast.database.name, services))
  /\ UNCHANGED <<runs, ast, services, parserVars>>

Admin2Return ==
  /\ pc = "admin2"
  /\ \/ \E reply \in AreaReplies :
          Commit(AfterAdmin2(Looked(Answer(Cur, reply), reply), Areas, reply))
     \/ Commit(Throw(Answer(Cur, Failed), "BackendError"))
  /\ UNCHANGED <<runs, ast, services, parserVars>>

Admin3Return ==
  /\ pc = "admin3"
  /\ \/ \E reply \in AreaReplies :
          Commit(AfterAdmin3(Looked(Answer(Cur, reply), reply), Areas, reply))
     \/ Commit(Throw(Answer(Cur, Failed), "BackendError"))
  /\ UNCHANGED <<runs, ast, services, parserVars>>

Admin4Return ==
  /\ pc = "admin4"
  /\ \/ \E reply \in AreaReplies :
          Commit(AfterAdmin4(Looked(Answer(Cur, reply), reply), Areas, reply))
     \/ Commit(Throw(Answer(Cur, Failed), "BackendError"))
  /\ UNCHANGED <<runs, ast, services, parserVars>>

\* the loop is over
LoopExit ==
  /\ pc = "loop"
  /\ i > Len(ast.where.a)
  /\ Commit(Join(Cur, ast))
  /\ UNCHANGED <<runs, ast, services, parserVars>>

JoinReturn ==
  /\ pc = "join"
  /\ \/ \E mData \in JoinReplies :
          Commit(AfterJoin(Answer(Cur, Obj("rows")), ast, mData))
     \/ Commit(Throw(Answer(Cur, Failed), "BackendError"))
  /\ UNCHANGED <<runs, ast, services, parserVars>>

AddReturn ==
  /\ pc = "add"
  /\ \/ \E data \in AddReplies :
          Commit(AfterAdd(Answer(Cur, Obj("key")), ast, data))
     \/ Commit(Throw(Answer(Cur, Failed), "BackendError"))
  /\ UNCHANGED <<runs, ast, services, parserVars>>

Tile38Return ==
  /\ pc = "tile38"
  /\ \/ Commit(MetabaseDispatch(Answer(Cur, Obj("rows")), ast))
     \/ Commit(Throw(Answer(Cur, Failed), "BackendError"))
  /\ UNCHANGED <<runs, ast, services, parserVars>>

MetabaseReturn ==
  /\ pc = "metabase"
  /\ \/ Commit(Return(Answer(Cur, Obj("rows"))))
     \/ Commit(Throw(Answer(Cur, Failed), "BackendError"))
  /\ UNCHANGED <<runs, ast, services, parserVars>>

Next ==
  \/ Start
  \/ ServicesReturn
  \/ LoopStep
  \/ Admin2Return
  \/ Admin3Return
  \/ Admin4Return
  \/ LoopExit
  \/ JoinReturn
  \/ AddReturn
  \/ Tile38Return
  \/ MetabaseReturn

Spec == Init /\ [][Next]_vars

TypeOK == pc \in {"idle", "services", "loop", "admin2", "admin3", "admin4",
                  "join", "add", "tile38", "metabase", "returned", "threw"}

\* ------------------------------------------------------------------------
\* The grammar (src/src/index.ts).  A text is a sequence of characters; a
\* parser takes the text and a position and yields a result: whether it
\* matched, the position after the match and the value.
\* ------------------------------------------------------------------------
Fail == [ok |-> FALSE, pos |-> 0, val |-> Undefined]

Ok(p, v) == [ok |-> TRUE, pos |-> p, val |-> v]

\* the element of a one-element set: Only({F(r) : r \in {e}}) is F(e), with
\* the result e of a parser named r in what follows it
Only(S) == CHOOSE x \in S : TRUE

\* P.alt of two results: the first that succeeded
Alt(a, b) == IF a.ok THEN a ELSE b

LowerLetters == {"a", "b", "c", "d", "e", "f", "g", "h", "i", "j", "k", "l", "m", "n", "o", "p", "q", "r", "s", "t", "u", "v", "w", "x", "y", "z"}

UpperLetters == {"A", "B", "C", "D", "E", "F", "G", "H", "I", "J", "K", "L", "M", "N", "O", "P", "Q", "R", "S", "T", "U", "V", "W", "X", "Y", "Z"}

Digits == {"0", "1", "2", "3", "4", "5", "6", "7", "8", "9"}

HexDigits == Digits \cup {"a", "b", "c", "d", "e", "f", "A", "B", "C", "D", "E", "F"}

\* \s
WhitespaceChars == {" ", "\n", "\t", "\r", "\f"}

\* what . does not match
LineTerminators == {"\n", "\r"}

\* the table of interpretEscapes; the backspace has no TLA+ escape
escapes ==
  [c \in {"b", "f", "n", "r", "t"} |->
     CASE c = "b" -> "<BS>" [] c = "f" -> "\f" [] c = "n" -> "\n"
       [] c = "r" -> "\r" [] c = "t" -> "\t"]

\* String.fromCharCode(parseInt(hex, 16)) on the code points of the texts
fromCharCode(hex) ==
  CASE hex = <<"0", "0", "4", "1">> -> "A"
    [] hex = <<"0", "0", "6", "1">> -> "a"
    [] hex = <<"0", "0", "2", "0">> -> " "
    [] OTHER -> "<U+>"

\* /\\(u[0-9a-fA-F]{4}|[^u])/ matches at position p of chars
EscapeAt(chars, p) ==
  /\ p + 1 <= Len(chars)
  /\ chars[p] = "\\"
  /\ \/ chars[p + 1] # "u"
     \/ /\ p + 5 <= Len(chars)
        /\ \A j \in 2..5 : chars[p + j] \in HexDigits

\* the position of the first match at or after p, 0 when there is none
RECURSIVE FirstEscape(_, _)
FirstEscape(chars, p) ==
  IF p > Len(chars) THEN 0
  ELSE IF EscapeAt(chars, p) THEN p
  ELSE FirstEscape(chars, p + 1)

\* str.replace(regexp, fn) with a regexp that has no g flag: the first
\* match is replaced
interpretEscapes(chars) ==
  LET p == FirstEscape(chars, 1) IN
  IF p = 0 THEN chars
  ELSE LET type == chars[p + 1] IN
       IF type = "u"
       THEN SubSeq(chars, 1, p - 1)
            \o <<fromCharCode(SubSeq(chars, p + 2, p + 5))>>
            \o SubSeq(chars, p + 6, Len(chars))
       ELSE SubSeq(chars, 1, p - 1)
            \o <<IF type \in DOMAIN escapes THEN escapes[type] ELSE type>>
            \o SubSeq(chars, p + 2, Len(chars))

\* P.regexp(/\s*/m): the position after the whitespace
RECURSIVE whitespace(_, _)
whitespace(s, p) ==
  IF p <= Len(s) /\ s[p] \in WhitespaceChars THEN whitespace(s, p + 1) ELSE p

RECURSIVE LineEnd(_, _)
LineEnd(s, p) ==
  IF p <= Len(s) /\ s[p] \notin LineTerminators THEN LineEnd(s, p + 1) ELSE p

\* P.regexp(/--.*/).or(optional): the position after the comment, if any
comment(s, p) ==
  IF p + 1 <= Len(s) /\ s[p] = "-" /\ s[p + 1] = "-" THEN LineEnd(s, p + 2)
  ELSE p

\* token(parser): the position after .skip(whitespace).skip(comment)
token(s, p) == comment(s, whitespace(s, p))

\* P.string(w) at p
StartsWith(s, p, w) ==
  /\ p + Len(w) - 1 <= Len(s)
  /\ \A j \in 1..Len(w) : s[p + j - 1] = w[j]

\* word(w) = token(comment).then(P.string(w)).thru(token)
word(w, s, p) ==
  LET q == token(s, comment(s, p)) IN
  IF StartsWith(s, q, w) THEN Ok(token(s, q + Len(w)), Str(w)) ELSE Fail

TextChars == LowerLetters \cup UpperLetters \cup Digits \cup {"-", "_"}

RECURSIVE TextEnd(_, _)
TextEnd(s, p) ==
  IF p <= Len(s) /\ s[p] \in TextChars THEN TextEnd(s, p + 1) ELSE p

\* text: token(P.regexp(/[a-zA-Z0-9-_]*/)).map(interpretEscapes)
textParser(s, p) ==
  LET e == TextEnd(s, p) IN
  Ok(token(s, e), Str(interpretEscapes(SubSeq(s, p, e - 1))))

\* ((?:\\.|.)*?)(["']) from p: the position of the closing quote the lazy
\* match ends at, 0 when there is none
RECURSIVE StringEnd(_, _)
StringEnd(s, p) ==
  IF p > Len(s) THEN 0
  ELSE IF s[p] \in {"\"", "'"} THEN p
  ELSE IF s[p] \in LineTerminators THEN 0
  ELSE IF s[p] = "\\" /\ p + 1 <= Len(s) /\ s[p + 1] \notin LineTerminators
  THEN LET e == StringEnd(s, p + 2) IN
       IF e # 0 THEN e ELSE StringEnd(s, p + 1)
  ELSE StringEnd(s, p + 1)

\* string: token(P.regexp(/(["'])((?:\\.|.)*?)(["'])/, 2)).map(interpretEscapes)
stringParser(s, p) ==
  IF p <= Len(s) /\ s[p] \in {"\"", "'"}
  THEN LET e == StringEnd(s, p + 1) IN
       IF e = 0 THEN Fail
       ELSE Ok(token(s, e + 1), Str(interpretEscapes(SubSeq(s, p + 1, e - 1))))
  ELSE Fail

RECURSIVE DigitsEnd(_, _)
DigitsEnd(s, p) ==
  IF p <= Len(s) /\ s[p] \in Digits THEN DigitsEnd(s, p + 1) ELSE p

DigitValue(c) ==
  CASE c = "0" -> 0 [] c = "1" -> 1 [] c = "2" -> 2 [] c = "3" -> 3
    [] c = "4" -> 4 [] c = "5" -> 5 [] c = "6" -> 6 [] c = "7" -> 7
    [] c = "8" -> 8 [] c = "9" -> 9

RECURSIVE DigitsValue(_)
DigitsValue(ds) ==
  IF Len(ds) = 0 THEN 0
  ELSE 10 * DigitsValue(SubSeq(ds, 1, Len(ds) - 1)) + DigitValue(ds[Len(ds)])

\* number: token(P.regexp(
\*   /-?(0|[1-9][0-9]*)([.][0-9]+)?([eE][+-]?[0-9]+)?/)).map(Number)
\* e1, e2 and e3 are the ends of the integer, of the fraction and of the
\* exponent.  An integer literal is the number; a fraction or an exponent
\* is kept as written.
numberParser(s, p) ==
  LET q == IF p <= Len(s) /\ s[p] = "-" THEN p + 1 ELSE p
      sign == IF p <= Len(s) /\ s[p] = "-" THEN -1 ELSE 1
  IN
  Only({ IF e1 = 0 THEN Fail ELSE
  Only({
  Only({ IF e3 = e1
         THEN Ok(token(s, e3), Num(sign * DigitsValue(SubSeq(s, q, e1 - 1))))
         ELSE Ok(token(s, e3),
                 [t |-> "number",
                  n |-> sign * DigitsValue(SubSeq(s, q, e1 - 1)),
                  rest |-> SubSeq(s, e1, e3 - 1)])
       : e3 \in {IF e2 <= Len(s) /\ s[e2] \in {"e", "E"}
                 THEN Only({ IF x <= Len(s) /\ s[x] \in Digits
                             THEN DigitsEnd(s, x) ELSE e2
                           : x \in {IF e2 + 1 <= Len(s)
                                       /\ s[e2 + 1] \in {"+", "-"}
                                    THEN e2 + 2 ELSE e2 + 1} })
                 ELSE e2} })
       : e2 \in {IF e1 + 1 <= Len(s) /\ s[e1] = "." /\ s[e1 + 1] \in Digits
                 THEN DigitsEnd(s, e1 + 1) ELSE e1} })
       : e1 \in {IF q <= Len(s) /\ s[q] = "0" THEN q + 1
                 ELSE IF q <= Len(s) /\ s[q] \in Digits
                 THEN DigitsEnd(s, q + 1)
                 ELSE 0} })

\* the strings of the grammar's word(...) parsers, as characters
W ==
  [comma |-> <<",">>,
   colon |-> <<":">>,
   dot |-> <<".">>,
   lBrace |-> <<"{">>,
   rBrace |-> <<"}">>,
   lBracket |-> <<"[">>,
   rBracket |-> <<"]">>,
   lParenthesis |-> <<"(">>,
   rParenthesis |-> <<")">>,
   star |-> <<"*">>,
   and |-> <<"a", "n", "d">>,
   null |-> <<"n", "u", "l", "l">>,
   true |-> <<"t", "r", "u", "e">>,
   false |-> <<"f", "a", "l", "s", "e">>,
   currentBounds |-> <<"c", "u", "r", "r", "e", "n", "t", "_", "b", "o", "u", "n", "d", "s">>,
   currentPoints |-> <<"c", "u", "r", "r", "e", "n", "t", "_", "p", "o", "i", "n", "t", "s">>,
   currentFeatures |-> <<"c", "u", "r", "r", "e", "n", "t", "_", "f", "e", "a", "t", "u", "r", "e", "s">>,
   eq |-> <<"=">>,
   gt |-> <<">">>,
   ge |-> <<">", "=">>,
   lt |-> <<"<">>,
   le |-> <<"<", "=">>,
   in |-> <<"i", "n">>,
   is |-> <<"i", "s">>,
   tile38 |-> <<"t", "i", "l", "e", "3", "8">>,
   metabase |-> <<"m", "e", "t", "a", "b", "a", "s", "e">>,
   url |-> <<"u", "r", "l">>,
   t |-> <<"t">>,
   m |-> <<"m">>,
   u |-> <<"u">>,
   as |-> <<"a", "s">>,
   where |-> <<"w", "h", "e", "r", "e">>,
   join |-> <<"j", "o", "i", "n">>,
   on |-> <<"o", "n">>,
   limit |-> <<"l", "i", "m", "i", "t">>,
   select |-> <<"s", "e", "l", "e", "c", "t">>,
   from |-> <<"f", "r", "o", "m">>,
   fetch |-> <<"f", "e", "t", "c", "h">>,
   create |-> <<"c", "r", "e", "a", "t", "e">>,
   get |-> <<"g", "e", "t">>,
   config |-> <<"c", "o", "n", "f", "i", "g">>,
   update |-> <<"u", "p", "d", "a", "t", "e">>]

\* constants: P.alt of the three words
constantsParser(s, p) ==
  Alt(word(W.currentBounds, s, p),
      Alt(word(W.currentPoints, s, p), word(W.currentFeatures, s, p)))

RECURSIVE value(_, _)
RECURSIVE manyCommaValues(_, _, _)
RECURSIVE manyCommaPairs(_, _, _)

\* r.value.sepBy(r.comma)
sepByValues(s, p) ==
  Only({ IF v.ok THEN manyCommaValues(s, v.pos, <<v.val>>) ELSE Ok(p, <<>>)
       : v \in {value(s, p)} })

manyCommaValues(s, p, acc) ==
  Only({ IF ~c.ok THEN Ok(p, acc) ELSE
  Only({ IF ~v.ok THEN Ok(p, acc)
         ELSE manyCommaValues(s, v.pos, Append(acc, v.val))
       : v \in {value(s, c.pos)} })
       : c \in {word(W.comma, s, p)} })

\* array: P.alt(lbracket, lParenthesis).then(value.sepBy(comma))
\*          .skip(P.alt(rbracket, rParenthesis))
arrayParser(s, p) ==
  Only({ IF ~o.ok THEN Fail ELSE
  Only({
  Only({ IF c.ok THEN Ok(c.pos, Arr(l.val)) ELSE Fail
       : c \in {Alt(word(W.rBracket, s, l.pos),
                    word(W.rParenthesis, s, l.pos))} })
       : l \in {sepByValues(s, o.pos)} })
       : o \in {Alt(word(W.lBracket, s, p), word(W.lParenthesis, s, p))} })

\* pair: P.seq(r.string.skip(r.colon), r.value)
pairParser(s, p) ==
  Only({ IF ~k.ok THEN Fail ELSE
  Only({ IF ~c.ok THEN Fail ELSE
  Only({ IF ~v.ok THEN Fail ELSE Ok(v.pos, <<k.val.s, v.val>>)
       : v \in {value(s, c.pos)} })
       : c \in {word(W.colon, s, k.pos)} })
       : k \in {stringParser(s, p)} })

manyCommaPairs(s, p, acc) ==
  Only({ IF ~c.ok THEN Ok(p, acc) ELSE
  Only({ IF ~v.ok THEN Ok(p, acc)
         ELSE manyCommaPairs(s, v.pos, Put(acc, v.val[1], v.val[2]))
       : v \in {pairParser(s, c.pos)} })
       : c \in {word(W.comma, s, p)} })

\* r.pair.sepBy(r.comma); a later pair overwrites an earlier one with the
\* same key
sepByPairs(s, p) ==
  Only({ IF f.ok
         THEN manyCommaPairs(s, f.pos, Put(EmptyMap, f.val[1], f.val[2]))
         ELSE Ok(p, EmptyMap)
       : f \in {pairParser(s, p)} })

\* object: lbrace, pair.sepBy(comma), rbrace
objectParser(s, p) ==
  Only({ IF ~o.ok THEN Fail ELSE
  Only({
  Only({ IF c.ok THEN Ok(c.pos, Obj(l.val)) ELSE Fail
       : c \in {word(W.rBrace, s, l.pos)} })
       : l \in {sepByPairs(s, o.pos)} })
       : o \in {word(W.lBrace, s, p)} })

\* fn: fnName text, arguments value.sepBy(comma).wrap(lParenthesis, rParenthesis)
fnParser(s, p) ==
  Only({
  Only({ IF ~o.ok THEN Fail ELSE
  Only({
  Only({ IF c.ok THEN Ok(c.pos, Fn(n.val, l.val)) ELSE Fail
       : c \in {word(W.rParenthesis, s, l.pos)} })
       : l \in {sepByValues(s, o.pos)} })
       : o \in {word(W.lParenthesis, s, n.pos)} })
       : n \in {textParser(s, p)} })

WithValue(r, v) == IF r.ok THEN Ok(r.pos, v) ELSE Fail

\* value: P.alt(object, array, string, number, null, true, false, fn,
\*              constants) after whitespace
value(s, p0) ==
  Only({
  Alt(objectParser(s, p),
  Alt(arrayParser(s, p),
  Alt(stringParser(s, p),
  Alt(numberParser(s, p),
  Alt(WithValue(word(W.null, s, p), Null),
  Alt(WithValue(word(W.true, s, p), [t |-> "boolean", b |-> TRUE]),
  Alt(WithValue(word(W.false, s, p), [t |-> "boolean", b |-> FALSE]),
  Alt(fnParser(s, p), constantsParser(s, p)))))))))
       : p \in {whitespace(s, p0)} })

\* operator: P.alt of the words in this order
OperatorWords == <<W.eq, W.gt, W.ge, W.lt, W.le, W.in, W.is>>

RECURSIVE AltWords(_, _, _, _)
AltWords(ws, k, s, p) ==
  IF k > Len(ws) THEN Fail
  ELSE Alt(word(ws[k], s, p), AltWords(ws, k + 1, s, p))

operatorParser(s, p) == AltWords(OperatorWords, 1, s, p)

\* databaseName: P.alt of the words in this order
DatabaseWords == <<W.tile38, W.metabase, W.url, W.t, W.m, W.u>>

databaseName(s, p) == AltWords(DatabaseWords, 1, s, p)

\* asAlias: word("as").then(r.text).or(optional)
asAlias(s, p) ==
  Only({ IF a.ok THEN textParser(s, a.pos) ELSE Ok(p, Null)
       : a \in {word(W.as, s, p)} })

\* key: alias r.text.skip(r.dot).or(optional), key r.text
keyParser(s, p) ==
  Only({
  Only({
  Only({ Ok(k.pos, [alias |-> IF d.ok THEN a.val ELSE Null, key |-> k.val])
       : k \in {textParser(s, IF d.ok THEN d.pos ELSE p)} })
       : d \in {word(W.dot, s, a.pos)} })
       : a \in {textParser(s, p)} })

\* pairCondition: r.comment.then(seqObj(left key, operator, right value))
pairCondition(s, p) ==
  Only({
  Only({ IF ~o.ok THEN Fail ELSE
  Only({ IF ~r.ok THEN Fail
         ELSE Ok(r.pos, [left |-> l.val, operator |-> o.val, right |-> r.val])
       : r \in {value(s, o.pos)} })
       : o \in {operatorParser(s, l.pos)} })
       : l \in {keyParser(s, token(s, comment(s, p)))} })

RECURSIVE manyConditions(_, _, _, _)

\* manyConditions with each further condition put before the earlier ones
manyConditionsPrepend(sep, s, p, acc) ==
  Only({ IF ~c.ok THEN Ok(p, acc) ELSE
  Only({ IF ~v.ok THEN Ok(p, acc)
         ELSE manyConditions(sep, s, v.pos, <<v.val>> \o acc)
       : v \in {pairCondition(s, c.pos)} })
       : c \in {word(sep, s, p)} })

\* the conditions that follow the first, each after sep
manyConditions(sep, s, p, acc) ==
  Only({ IF ~c.ok THEN Ok(p, acc) ELSE
  Only({ IF ~v.ok THEN Ok(p, acc)
         ELSE manyConditions(sep, s, v.pos, Append(acc, v.val))
       : v \in {pairCondition(s, c.pos)} })
       : c \in {word(sep, s, p)} })

\* r.pairCondition.sepBy(sep)
sepByConditions(sep, s, p) ==
  Only({ IF v.ok THEN manyConditions(sep, s, v.pos, <<v.val>>)
         ELSE Ok(p, <<>>)
       : v \in {pairCondition(s, p)} })

\* where: word("where").then(r.pairCondition.sepBy(r.and))
whereParser(s, p) ==
  Only({ IF ~w.ok THEN Fail ELSE
  Only({ Ok(l.pos, Arr(l.val))
       : l \in {sepByConditions(W.and, s, w.pos)} })
       : w \in {word(W.where, s, p)} })

\* joinCondition: seqObj(left key, word("="), right key)
joinCondition(s, p) ==
  Only({
  Only({ IF ~e.ok THEN Fail ELSE
  Only({ Ok(r.pos, [t |-> "object", left |-> l.val, right |-> r.val])
       : r \in {keyParser(s, e.pos)} })
       : e \in {word(W.eq, s, l.pos)} })
       : l \in {keyParser(s, p)} })

\* join: word("join").skip(r.databaseName).skip(word("on")).then(r.joinCondition)
joinParser(s, p) ==
  Only({ IF ~j.ok THEN Fail ELSE
  Only({ IF ~d.ok THEN Fail ELSE
  Only({ IF ~o.ok THEN Fail ELSE joinCondition(s, o.pos)
       : o \in {word(W.on, s, d.pos)} })
       : d \in {databaseName(s, j.pos)} })
       : j \in {word(W.join, s, p)} })

\* limit: word("limit").then(r.number)
limitParser(s, p) ==
  Only({ IF ~l.ok THEN Fail ELSE numberParser(s, l.pos)
       : l \in {word(W.limit, s, p)} })

\* parser.or(optional)
OrNull(r, p) == IF r.ok THEN r ELSE Ok(p, Null)

\* seqObj(name r.databaseName, alias r.asAlias)
databaseParser(s, p) ==
  Only({ IF ~n.ok THEN Fail ELSE
  Only({ Ok(a.pos, [name |-> n.val, alias |-> a.val])
       : a \in {asAlias(s, n.pos)} })
       : n \in {databaseName(s, p)} })

\* select: seqObj(command, "*", "from", database, join, where, limit)
\*           .skip(r.comment) after whitespace
selectParser(s, p0) ==
  Only({ IF ~c.ok THEN Fail ELSE
  Only({ IF ~st.ok THEN Fail ELSE
  Only({ IF ~f.ok THEN Fail ELSE
  Only({ IF ~d.ok THEN Fail ELSE
  Only({
  Only({
  Only({ Ok(token(s, comment(s, l.pos)),
            [command |-> c.val, database |-> d.val, join |-> j.val,
             where |-> w.val, limit |-> l.val])
       : l \in {OrNull(limitParser(s, w.pos), w.pos)} })
       : w \in {OrNull(whereParser(s, j.pos), j.pos)} })
       : j \in {OrNull(joinParser(s, d.pos), d.pos)} })
       : d \in {databaseParser(s, f.pos)} })
       : f \in {word(W.from, s, st.pos)} })
       : st \in {word(W.star, s, c.pos)} })
       : c \in {word(W.select, s, whitespace(s, p0))} })

\* parameters: lParenthesis, pairCondition.sepBy(comma), rParenthesis
parameters(s, p) ==
  Only({ IF ~o.ok THEN Fail ELSE
  Only({
  Only({ IF c.ok THEN Ok(c.pos, Arr(l.val)) ELSE Fail
       : c \in {word(W.rParenthesis, s, l.pos)} })
       : l \in {sepByConditions(W.comma, s, o.pos)} })
       : o \in {word(W.lParenthesis, s, p)} })

\* fetch: seqObj(command, database, parameters)
fetchParser(s, p0) ==
  Only({ IF ~c.ok THEN Fail ELSE
  Only({ IF ~d.ok THEN Fail ELSE
  Only({ IF ~ps.ok THEN Fail
         ELSE Ok(token(s, comment(s, ps.pos)),
                 [command |-> c.val, database |-> d.val,
                  parameters |-> ps.val])
       : ps \in {parameters(s, d.pos)} })
       : d \in {databaseParser(s, c.pos)} })
       : c \in {word(W.fetch, s, whitespace(s, p0))} })

\* create: seqObj(command, type text, name text, parameters.or(optional))
createParser(s, p0) ==
  Only({ IF ~c.ok THEN Fail ELSE
  Only({
  Only({
  Only({ Ok(token(s, comment(s, ps.pos)),
            [command |-> c.val, type |-> ty.val, name |-> n.val,
             parameters |-> ps.val])
       : ps \in {OrNull(parameters(s, n.pos), n.pos)} })
       : n \in {textParser(s, ty.pos)} })
       : ty \in {textParser(s, c.pos)} })
       : c \in {word(W.create, s, whitespace(s, p0))} })

\* getConfig: seqObj(command word("get"), type word("config"), parameters)
getConfig(s, p0) ==
  Only({ IF ~c.ok THEN Fail ELSE
  Only({ IF ~ty.ok THEN Fail ELSE
  Only({ IF ~ps.ok THEN Fail
         ELSE Ok(token(s, comment(s, ps.pos)),
                 [command |-> c.val, type |-> ty.val, parameters |-> ps.val])
       : ps \in {parameters(s, ty.pos)} })
       : ty \in {word(W.config, s, c.pos)} })
       : c \in {word(W.get, s, whitespace(s, p0))} })

\* updateConfig: seqObj(command word("update"), type word("config"))
updateConfig(s, p0) ==
  Only({ IF ~c.ok THEN Fail ELSE
  Only({ IF ~ty.ok THEN Fail
         ELSE Ok(token(s, comment(s, ty.pos)),
                 [command |-> c.val, type |-> ty.val])
       : ty \in {word(W.config, s, c.pos)} })
       : c \in {word(W.update, s, whitespace(s, p0))} })

\* parser: P.alt(r.fetch, r.select, r.create, r.getConfig, r.updateConfig)
parser(s, p) ==
  Alt(fetchParser(s, p),
  Alt(selectParser(s, p),
  Alt(createParser(s, p),
  Alt(getConfig(s, p), updateConfig(s, p)))))

\* kql.parser.tryParse(s): the parser followed by the end of the text
tryParse(s) ==
  Only({ IF r.ok /\ r.pos = Len(s) + 1 THEN [ok |-> TRUE, ast |-> r.val]
         ELSE [ok |-> FALSE, ast |-> Undefined]
       : r \in {parser(s, 1)} })

\* ------------------------------------------------------------------------
\* Inputs of the parser, and the parser as a state machine
\* ------------------------------------------------------------------------
Sp == <<" ">>

SelectText(sel, frm, db, al, wh) ==
  sel \o Sp \o W.star \o Sp \o frm \o Sp \o db \o al \o wh

ConditionText(key, op, val) == key \o Sp \o op \o Sp \o val

WhereText(cond) == Sp \o W.where \o Sp \o cond

AndText(c1, c2) == c1 \o Sp \o W.and \o Sp \o c2

cAge == <<"a", "g", "e">>
cEmail == <<"e", "m", "a", "i", "l">>
c18 == <<"1", "8">>
cHello == <<"h", "e", "l", "l", "o">>

SelectWords == {W.select, <<"S", "E", "L", "E", "C", "T">>}

FromWords == {W.from, <<"F", "R", "O", "m">>}

AsWords == {W.as, <<"A", "S">>}

DatabaseTexts == {W.tile38, W.t, W.metabase, W.m, W.url, W.u}

AliasTexts == {<<>>} \cup {Sp \o a \o Sp \o cHello : a \in AsWords}

OperatorTexts == {W.eq, W.gt, W.ge, W.lt, W.le, W.in, W.is}

\* email = 'lynkxyz@gmail.com', t.id='order-stop', a string with two
\* escapes, an array in parentheses and a function call
OtherConditionTexts ==
  {<<"e", "m", "a", "i", "l", " ", "=", " ", "'", "l", "y", "n", "k", "x", "y", "z", "@", "g", "m", "a", "i", "l", ".", "c", "o", "m", "'">>,
   <<"t", ".", "i", "d", "=", "'", "o", "r", "d", "e", "r", "-", "s", "t", "o", "p", "'">>,
   <<"n", "a", "m", "e", " ", "=", " ", "'", "a", "\\", "n", "b", "\\", "t", "c", "'">>,
   <<"t", ".", "s", "t", "a", "t", "u", "s", " ", "i", "n", " ", "(", "'", "o", "n", "l", "i", "n", "e", "'", ",", " ", "\"", "b", "u", "s", "y", "\"", ")">>,
   <<"w", "i", "t", "h", "i", "n", " ", "i", "n", " ", "g", "e", "t", "(", "'", "h", "a", "n", "o", "i", "'", ",", " ", "'", "b", "a", "d", "i", "n", "h", "'", ")">>}

ConditionTexts ==
  {ConditionText(cAge, op, c18) : op \in OperatorTexts}
  \cup OtherConditionTexts

WhereTexts ==
  {<<>>}
  \cup {WhereText(c) : c \in ConditionTexts}
  \cup {WhereText(AndText(c1, c2)) :
          c1 \in OtherConditionTexts, c2 \in {ConditionText(cAge, W.eq, c18)}}

\* the other statements of the language
OtherTexts ==
  {<<"f", "e", "t", "c", "h", " ", "t", "i", "l", "e", "3", "8", " ", "(", "q", "u", "e", "r", "y", " ", "=", " ", "'", "n", "e", "a", "r", "b", "y", "'", ",", " ", "l", "i", "m", "i", "t", " ", "=", " ", "2", ")">>,
   <<"-", "-", " ", "h", "e", "l", "l", "o", "\n", "c", "r", "e", "a", "t", "e", " ", "w", "i", "d", "g", "e", "t", " ", "t", "e", "s", "t", " ", "(", "i", "d", " ", "=", " ", "1", "2", "3", "4", ")", "\n", "-", "-", " ", "h", "e", "l", "l", "o", "\n">>,
   <<"g", "e", "t", " ", "c", "o", "n", "f", "i", "g", " ", "(", "i", "d", " ", "=", " ", "4", "3", "2", "3", "4", ")">>,
   <<"u", "p", "d", "a", "t", "e", " ", "c", "o", "n", "f", "i", "g">>}

\* the longest where list of the statements built from condition pieces
MaxConditions == 3

\* conditions as written and as the AST the grammar gives them: a number,
\* a string, a qualified key, an array and a function call
ConditionPieces ==
  {[txt |-> ConditionText(cAge, W.eq, c18),
    ast |-> [left |-> [alias |-> Null, key |-> Str(cAge)],
             operator |-> Str(W.eq), right |-> Num(18)]],
   [txt |-> <<"e", "m", "a", "i", "l", " ", "=", " ", "'", "l", "y", "n", "k", "x", "y", "z", "@", "g", "m", "a", "i", "l", ".", "c", "o", "m", "'">>,
    ast |-> [left |-> [alias |-> Null, key |-> Str(cEmail)],
             operator |-> Str(W.eq),
             right |-> Str(<<"l", "y", "n", "k", "x", "y", "z", "@", "g", "m", "a", "i", "l", ".", "c", "o", "m">>)]],
   [txt |-> <<"t", ".", "i", "d", "=", "'", "o", "r", "d", "e", "r", "-", "s", "t", "o", "p", "'">>,
    ast |-> [left |-> [alias |-> Str(W.t), key |-> Str(<<"i", "d">>)],
             operator |-> Str(W.eq),
             right |-> Str(<<"o", "r", "d", "e", "r", "-", "s", "t", "o", "p">>)]],
   [txt |-> <<"t", ".", "s", "t", "a", "t", "u", "s", " ", "i", "n", " ", "(", "'", "o", "n", "l", "i", "n", "e", "'", ",", " ", "\"", "b", "u", "s", "y", "\"", ")">>,
    ast |-> [left |-> [alias |-> Str(W.t),
                       key |-> Str(<<"s", "t", "a", "t", "u", "s">>)],
             operator |-> Str(W.in),
             right |-> Arr(<<Str(<<"o", "n", "l", "i", "n", "e">>),
                             Str(<<"b", "u", "s", "y">>)>>)]],
   [txt |-> <<"w", "i", "t", "h", "i", "n", " ", "i", "n", " ", "g", "e", "t", "(", "'", "h", "a", "n", "o", "i", "'", ",", " ", "'", "b", "a", "d", "i", "n", "h", "'", ")">>,
    ast |-> [left |-> [alias |-> Null,
                       key |-> Str(<<"w", "i", "t", "h", "i", "n">>)],
             operator |-> Str(W.in),
             right |-> Fn(Str(W.get),
                          <<Str(<<"h", "a", "n", "o", "i">>),
                            Str(<<"b", "a", "d", "i", "n", "h">>)>>)]]}

\* c1 and c2 and ... and cn
RECURSIVE AndTexts(_)
AndTexts(ts) ==
  IF Len(ts) = 1 THEN ts[1] ELSE AndText(ts[1], AndTexts(Tail(ts)))

\* select * from D where c1 and ... and cn for every list of 1 to
\* MaxConditions pieces, with the list of their ASTs
WhereCases ==
  {[text |-> SelectText(W.select, W.from, db, <<>>,
                        WhereText(AndTexts([j \in 1..Len(cs) |-> cs[j].txt]))),
    where |-> [j \in 1..Len(cs) |-> cs[j].ast]] :
     cs \in UNION {[1..n -> ConditionPieces] : n \in 1..MaxConditions},
     db \in {W.tile38, W.m}}

Texts ==
  {SelectText(sel, frm, db, al, wh) :
     sel \in SelectWords, frm \in FromWords, db \in DatabaseTexts,
     al \in AliasTexts, wh \in WhereTexts}
  \cup {c.text : c \in WhereCases}
  \cup OtherTexts

ParseInit ==
  /\ memorizeAreas = MemorizeAreasInit
  /\ runs = 0
  /\ ast = Statement("t", Null, Null, Null, Null)
  /\ pc = "idle"
  /\ i = 1
  /\ services = EmptyMap
  /\ tile38Query = Tile38QueryInit
  /\ metabaseQuery = EmptyMap
  /\ admin = AdminInit
  /\ error = ""
  /\ calls = <<>>
  /\ lookups = {}
  /\ dispatched = <<>>
  /\ text \in Texts
  /\ parsed = Undefined

\* kql.parser.tryParse(text)
TryParse ==
  /\ parsed = Undefined
  /\ parsed' = [t |-> "result"] @@ tryParse(text)
  /\ UNCHANGED <<text, compilerVars>>

ParseNext == TryParse

ParseSpec == ParseInit /\ [][ParseNext]_vars

\* ------------------------------------------------------------------------
\* Properties of the compiler
\* ------------------------------------------------------------------------
Kinds(cs) == [k \in 1..Len(cs) |-> cs[k].kind]

FinalQueries == {k \in 1..Len(calls) : calls[k].kind \in {"tile38", "metabase"}}

\* C1: a compilation that returns without an error has issued exactly one
\* final backend query: the spatial-engine query when database.name is t or
\* tile38, the record-service query for every other database name.
C1_OneFinalQuery ==
  pc = "returned" =>
    /\ Cardinality(FinalQueries) = 1
    /\ \A k \in FinalQueries :
         calls[k].kind = IF IsTile38Database(ast.database.name)
                         THEN "tile38" ELSE "metabase"

MissingFieldErrors == {"missing id_field field", "missing geometry field"}

\* the parameter map has cast_to and lacks one of its companions
CastToLacking ==
  /\ "cast_to" \in DOMAIN metabaseQuery
  /\ \/ "id_field" \notin DOMAIN metabaseQuery
     \/ "geometry" \notin DOMAIN metabaseQuery

\* the loop is over and the cast_to check is still ahead
BeforeCastTo == \/ pc = "loop" /\ i > Len(ast.where.a)
                \/ pc = "join"

\* C2 as stated: when the compilation fails for a missing id_field or
\* geometry, it has issued no backend call of any kind.
C2_NoCallBeforeFailure ==
  (pc = "threw" /\ error \in MissingFieldErrors) => calls = <<>>

\* C2 as amended: with cast_to present and id_field or geometry lacking, the
\* code that follows the loop ends in an error (at once, or after the
\* join-data fetch it awaits first); the registration call and the final
\* query are never issued, while the service-registry fetch, and the
\* join-data fetch of a statement with a join, have been.
C2_FailsBeforeRegistration ==
  [][(CastToLacking /\ BeforeCastTo) =>
       /\ pc' \in {"join", "threw"}
       /\ pc = "join" => pc' = "threw"
       /\ \A k \in 1..Len(calls') :
            calls'[k].kind \notin {"add", "tile38", "metabase"}
       /\ calls'[1].kind = "services"
       /\ (pc' = "threw" /\ error' \in MissingFieldErrors /\ Truthy(ast.join))
            => \E k \in 1..Len(calls') : calls'[k].kind = "join"
       /\ (pc' = "threw" /\ ~Truthy(ast.join))
            => error' \in MissingFieldErrors]_vars

C2_Witness ==
  /\ pc = "threw"
  /\ error = "missing id_field field"
  /\ Kinds(calls) = <<"services", "join">>

LevelKeys == {"admin2", "admin3", "admin4"}

\* C3: an entry of memorizeAreas, once stored, is never removed and its id
\* and geometry never change.
C3_AppendOnly ==
  [][\A level \in LevelKeys : \A n \in DOMAIN memorizeAreas[level] :
       /\ n \in DOMAIN memorizeAreas'[level]
       /\ memorizeAreas'[level][n].id = memorizeAreas[level][n].id
       /\ memorizeAreas'[level][n].geometry = memorizeAreas[level][n].geometry]_vars

LevelKey(n) == CASE n = 2 -> "admin2" [] n = 3 -> "admin3" [] n = 4 -> "admin4"

LevelLabel(n) == CASE n = 2 -> "admin-2" [] n = 3 -> "admin-3" [] n = 4 -> "admin-4"

\* a new area lookup is issued in this step
NewAreaCall ==
  /\ Len(calls') = Len(calls) + 1
  /\ calls'[Len(calls')].kind = "area"

\* C4: once a remote lookup at level N has returned a row for a name, the
\* cache holds that name at level N with the returned id, no later
\* resolution issues a remote lookup for the same level and name, and a
\* resolution of that name at level N yields a looked-up id.
C4_CachedAfterLookup ==
  /\ [](\A l \in lookups :
          /\ l.name.s \in DOMAIN memorizeAreas[LevelKey(l.level)]
          /\ memorizeAreas[LevelKey(l.level)][l.name.s].id = l.id)
  /\ [](\A l \in lookups :
          (admin.level = Str(LevelLabel(l.level)) /\ admin.name = l.name)
            => \E m \in lookups :
                 /\ m.level = l.level
                 /\ m.name = l.name
                 /\ getAdminId(admin, l.level) = m.id)
  /\ [][NewAreaCall =>
          \A l \in lookups :
            ~(l.level = calls'[Len(calls')].stage
              /\ l.name = calls'[Len(calls')].name)]_vars

\* an awaited area lookup returns a row in this step
AreaRowReturned ==
  /\ pc \in {"admin2", "admin3", "admin4"}
  /\ Len(calls') >= Len(calls)
  /\ calls'[Len(calls)].reply.t = "row"

\* C5: the lookup issued on a miss at level N is the level-N query for the
\* level-N name with the ids of the levels above it, the lookups of one
\* getAdminLevel are issued in the order of the levels, and the row a lookup
\* returns is what its level resolves to.
C5_LevelQuery ==
  /\ [](\A k \in 1..Len(calls) :
          calls[k].kind = "area" =>
            /\ calls[k].query.scan = LevelLabel(calls[k].stage)
            /\ calls[k].query.name = calls[k].name)
  /\ [][AreaRowReturned =>
          getAdminId(admin', calls[Len(calls)].stage)
            = calls'[Len(calls)].reply.id]_vars

IsGetCondition(c) ==
  /\ c.left.key.s \in tile38FnKeys
  /\ c.right.t = "fn"
  /\ c.right.fnName = Str("get")

\* C6: after a statement's single condition get(a1, ..., ak), 1 <= k <= 3,
\* whose levels the resolver all resolved, the location is the verb get
\* followed by one argument, the id of level k+1.
C6_DeepestId ==
  (/\ pc = "loop"
   /\ i = 2
   /\ IsGetCondition(ast.where.a[1])
   /\ Len(ast.where.a[1].right.arguments) \in 1..3
   /\ \A j \in 1..Len(ast.where.a[1].right.arguments) :
        ast.where.a[1].right.arguments[j].s \notin ObjectPrototypeNames
   /\ \A k \in 1..Len(calls) :
        calls[k].kind = "area" => calls[k].reply.t = "row")
  =>
  LET areas == ast.where.a[1].right.arguments IN
    /\ Len(tile38Query.location) = 2
    /\ tile38Query.location[1] = Str("get")
    /\ \E l \in lookups :
         /\ l.level = Len(areas) + 1
         /\ l.name = areas[Len(areas)]
         /\ tile38Query.location[2] = l.id

\* C7: every condition processed so far entered the branch of exactly one
\* backend: the spatial engine's when its effective alias is t or tile38 or
\* its key is a spatial-function key, the record service's in every other
\* case.
C7_OneBackend ==
  \A k \in 1..Len(dispatched) :
    LET c == ast.where.a[k]
        alias == Coalesce(c.left.alias, ast.database.name)
        spatial == \/ alias \in {Str("t"), Str("tile38")}
                   \/ c.left.key.s \in {"within", "nearby", "scan",
                                        "intersects", "search"}
    IN /\ dispatched[k].tile38 = spatial
       /\ dispatched[k].metabase = ~spatial

SpecialKeys == tile38FnKeys \cup {"id", "status", "filter", "service", "order_status"}

\* the condition the loop is about to process is a numeric condition of the
\* spatial engine on an ordinary key with one of the five range operators
RangeConditionNext ==
  /\ pc = "loop"
  /\ i <= Len(ast.where.a)
  /\ Coalesce(ast.where.a[i].left.alias, ast.database.name)
       \in {Str("t"), Str("tile38")}
  /\ ast.where.a[i].left.key.s \notin SpecialKeys
  /\ ast.where.a[i].right.t = "number"
  /\ ast.where.a[i].operator \in {"=", ">", ">=", "<", "<="}

\* C10: such a condition k op v appends exactly one clause: = gives
\* where k v v, > gives where k v +inf, >= gives where k (v-1) +inf,
\* < gives where k -inf v, <= gives where k -inf (v-1).
C10_RangeClause ==
  [][RangeConditionNext =>
       LET c == ast.where.a[i]
           k == c.left.key
           v == c.right.n
           lo == CASE c.operator = "=" -> Num(v)
                   [] c.operator = ">" -> Num(v)
                   [] c.operator = ">=" -> Num(v - 1)
                   [] OTHER -> Str("-inf")
           hi == CASE c.operator = "=" -> Num(v)
                   [] c.operator = "<" -> Num(v)
                   [] c.operator = "<=" -> Num(v - 1)
                   [] OTHER -> Str("+inf")
       IN tile38Query'.conditions =
            Append(tile38Query.conditions,
                   Template(<<Str("where"), k, lo, hi>>))]_vars

\* age >= 18 has given age 17 +inf
C10_Witness ==
  /\ pc = "loop"
  /\ i = 2
  /\ ast.where.a[1] = Cond(Str("t"), "age", ">=", Num(18))
  /\ tile38Query.conditions =
       <<Template(<<Str("where"), Str("age"), Num(17), Str("+inf")>>)>>

\* the condition the loop is about to process is a condition of the spatial
\* engine keyed filter
FilterConditionNext ==
  /\ pc = "loop"
  /\ i <= Len(ast.where.a)
  /\ Coalesce(ast.where.a[i].left.alias, ast.database.name)
       \in {Str("t"), Str("tile38")}
  /\ ast.where.a[i].left.key = Str("filter")

\* C11: a filter condition of the spatial engine sets the filter payload to
\* its value and changes nothing else of the command: head (verb and
\* target id), conditions and location stay as they were, whatever the
\* shape of the value.
C11_FilterOnly ==
  [][FilterConditionNext =>
       tile38Query' = [tile38Query EXCEPT !.filter = ast.where.a[i].right]]_vars

\* the condition the loop is about to process is a service condition of the
\* spatial engine with a list of service names
ServiceConditionNext ==
  /\ pc = "loop"
  /\ i <= Len(ast.where.a)
  /\ Coalesce(ast.where.a[i].left.alias, ast.database.name)
       \in {Str("t"), Str("tile38")}
  /\ ast.where.a[i].left.key = Str("service")
  /\ ast.where.a[i].right.t = "array"
  /\ AllStrings(ast.where.a[i].right.a)

\* Array.prototype.join writes an undefined element as the empty string: the
\* ids a joined list shows are its defined elements
IsListed(x) == x # Undefined

\* C12: a service condition never fails the compilation, a name the
\* registry lacks contributes no id, and the clause it appends is
\* wherein service count id1 id2 ... with count the number of ids listed.
C12_ServiceCount ==
  [][ServiceConditionNext =>
       /\ pc' # "threw"
       /\ Len(tile38Query'.conditions) = Len(tile38Query.conditions) + 1
       /\ LET parts == tile38Query'.conditions[Len(tile38Query'.conditions)].parts
          IN /\ SubSeq(parts, 1, 2) = <<Str("wherein"), Str("service")>>
             /\ parts[3] = Num(Len(SelectSeq(SubSeq(parts, 4, Len(parts)),
                                             IsListed)))]_vars

\* the place of a kind of remote call in the pipeline
Rank(kind) ==
  CASE kind = "services" -> 1
    [] kind = "area" -> 2
    [] kind = "join" -> 3
    [] kind = "add" -> 4
    [] kind \in {"tile38", "metabase"} -> 5

\* this step issues a remote call
CallIssued ==
  /\ calls' # calls
  /\ Len(calls') > 0
  /\ calls'[Len(calls')].reply = Pending

\* the calls of the compilation before this step: none when the step
\* starts a compilation
EarlierCalls == IF runs' # runs THEN <<>> ELSE calls

\* C15: the remote calls of a compilation are issued one at a time, each
\* after the one before it has returned, in the order service-registry
\* fetch, area lookups of the conditions in where order, join-data fetch
\* (only with a join), registration call (only with cast_to), final query;
\* nothing is issued after the final query.  An area lookup is issued for
\* the condition the loop is at, and the loop never goes back.
C15_CallOrder ==
  [][/\ runs' = runs => i' >= i
     /\ CallIssued =>
       LET new == calls'[Len(calls')]
           n == Len(EarlierCalls)
       IN
       /\ Len(calls') = n + 1
       /\ \A k \in 1..n : /\ calls'[k].kind = EarlierCalls[k].kind
                          /\ calls'[k].reply # Pending
       /\ (n = 0) <=> (new.kind = "services")
       /\ n > 0 =>
            /\ Rank(EarlierCalls[n].kind) <= Rank(new.kind)
            /\ Rank(EarlierCalls[n].kind) = Rank(new.kind) => new.kind = "area"
       /\ new.kind = "area" =>
            /\ i' = i
            /\ i <= Len(ast.where.a)
            /\ ast.where.a[i].right.t = "fn"
            /\ \E k \in 1..Len(ast.where.a[i].right.arguments) :
                 ast.where.a[i].right.arguments[k] = new.name
       /\ new.kind = "join" => Truthy(ast.join)
       /\ new.kind = "add" => "cast_to" \in DOMAIN metabaseQuery]_vars

\* a compilation has made every kind of call and returned
C15_Witness ==
  /\ pc = "returned"
  /\ Kinds(calls) = <<"services", "area", "area", "join", "add", "tile38">>
  /\ \A k \in 1..Len(calls) : calls[k].reply # Pending

\* the calls of the running compilation that were rejected
FailedCalls == {k \in 1..Len(calls) : calls[k].reply = Failed}

\* C16: once a remote call of a compilation has failed, parseSelect has
\* ended in failure with the error of that call, and the failed call is the
\* last call of the compilation: no later call, no second attempt, and the
\* calls that succeeded before it, a registration included, stay as they
\* were answered.
C16_FailureAborts ==
  FailedCalls # {} =>
    /\ pc = "threw"
    /\ error = "BackendError"
    /\ FailedCalls = {Len(calls)}
    /\ \A k \in 1..(Len(calls) - 1) : calls[k].reply # Pending
    /\ \A k \in 1..(Len(calls) - 1) :
         Rank(calls[k].kind) = Rank(calls[Len(calls)].kind)
           => calls[k].kind = "area"

\* the final query has failed after the registration call succeeded
C16_Witness ==
  /\ pc = "threw"
  /\ error = "BackendError"
  /\ Kinds(calls) = <<"services", "add", "tile38">>
  /\ calls[2].reply = Obj("key")
  /\ calls[3].reply = Failed

\* ------------------------------------------------------------------------
\* Properties of the parser
\* ------------------------------------------------------------------------
LowerChar(c) ==
  CASE c = "A" -> "a" [] c = "B" -> "b" [] c = "C" -> "c" [] c = "D" -> "d"
    [] c = "E" -> "e" [] c = "F" -> "f" [] c = "G" -> "g" [] c = "H" ->
    "h" [] c = "I" -> "i" [] c = "J" -> "j" [] c = "K" -> "k" [] c = "L"
    -> "l" [] c = "M" -> "m" [] c = "N" -> "n" [] c = "O" -> "o" [] c =
    "P" -> "p" [] c = "Q" -> "q" [] c = "R" -> "r" [] c = "S" -> "s" []
    c = "T" -> "t" [] c = "U" -> "u" [] c = "V" -> "v" [] c = "W" -> "w"
    [] c = "X" -> "x" [] c = "Y" -> "y" [] c = "Z" -> "z"
    [] OTHER -> c

\* the text with its upper-case letters folded to lower case
LowerText(chars) == [j \in 1..Len(chars) |-> LowerChar(chars[j])]

\* SELECT * FROm tile38 AS hello
MixedCaseText ==
  SelectText(<<"S", "E", "L", "E", "C", "T">>, <<"F", "R", "O", "m">>, W.tile38,
             Sp \o <<"A", "S">> \o Sp \o cHello, <<>>)

\* C8: a select statement whose keywords are written in any mix of cases
\* parses, to the AST of the all-lower-case statement, with command select;
\* SELECT * FROm tile38 AS hello gives database tile38 with alias hello and
\* join, where and limit null.
C8_KeywordCase ==
  (parsed # Undefined /\ tryParse(LowerText(text)).ok
   /\ tryParse(LowerText(text)).ast.command = Str(W.select))
  =>
  /\ parsed.ok
  /\ parsed.ast = tryParse(LowerText(text)).ast
  /\ text = MixedCaseText =>
       parsed.ast = [command |-> Str(W.select),
                     database |-> [name |-> Str(W.tile38), alias |-> Str(cHello)],
                     join |-> Null, where |-> Null, limit |-> Null]

\* C9: for each operator op of =, >, >=, <, <=, in, is, the statement
\* select * from D where age op 18 parses into one condition whose
\* operator is op and whose right side is the number 18.
C9_Operators ==
  \A op \in OperatorTexts : \A db \in DatabaseTexts :
    (/\ parsed # Undefined
     /\ text = SelectText(W.select, W.from, db, <<>>,
                          WhereText(ConditionText(cAge, op, c18))))
    =>
    /\ parsed.ok
    /\ parsed.ast.where =
         Arr(<<[left |-> [alias |-> Null, key |-> Str(cAge)],
                operator |-> Str(op), right |-> Num(18)]>>)

\* C13: select * from D where c1 and ... and cn parses to a where list of
\* exactly the n conditions in the order written, each with its alias (null
\* when the key is unqualified), key, operator and a right value of the
\* literal's own type (18 is the number 18), and with join and limit null.
C13_WhereList ==
  \A c \in WhereCases :
    (parsed # Undefined /\ text = c.text) =>
      /\ parsed.ok
      /\ parsed.ast.where.t = "array"
      /\ Len(parsed.ast.where.a) = Len(c.where)
      /\ parsed.ast.where.a = c.where
      /\ parsed.ast.join = Null
      /\ parsed.ast.limit = Null

\* a statement of three different conditions has been parsed
C13_Witness ==
  /\ parsed # Undefined
  /\ parsed.ok
  /\ \E c \in WhereCases :
       /\ text = c.text
       /\ Len(c.where) = 3
       /\ c.where[1].right = Num(18)
       /\ c.where[2].right.t = "string"
       /\ c.where[3].right.t = "fn"
       /\ parsed.ast.where.a[1].right = Num(18)

\* every escape of chars interpreted, from left to right
RECURSIVE EveryEscape(_)
EveryEscape(chars) ==
  IF Len(chars) = 0 THEN <<>>
  ELSE IF ~EscapeAt(chars, 1) THEN <<chars[1]>> \o EveryEscape(Tail(chars))
  ELSE IF chars[2] = "u"
  THEN <<fromCharCode(SubSeq(chars, 3, 6))>>
       \o EveryEscape(SubSeq(chars, 7, Len(chars)))
  ELSE <<IF chars[2] \in DOMAIN escapes THEN escapes[chars[2]] ELSE chars[2]>>
       \o EveryEscape(SubSeq(chars, 3, Len(chars)))

\* a\nb\tc as written between the quotes
TwoEscapes == <<"a", "\\", "n", "b", "\\", "t", "c">>

\* C14: the string of a parsed string literal has every escape sequence of
\* the literal interpreted: name = 'a\nb\tc' gives the string a, newline, b,
\* tab, c.
C14_EveryEscape ==
  \A db \in DatabaseTexts :
    (/\ parsed # Undefined
     /\ text = SelectText(W.select, W.from, db, <<>>,
                          WhereText(<<"n", "a", "m", "e", " ", "=", " ", "'">>
                                    \o TwoEscapes \o <<"'">>)))
    =>
    /\ parsed.ok
    /\ parsed.ast.where.a[1].right = Str(EveryEscape(TwoEscapes))
    /\ EveryEscape(TwoEscapes) = <<"a", "\n", "b", "\t", "c">>

====
